---- MODULE Spec2Model ----
(***************************************************************************)
(* Model of streamlit_app.py: the per-location fetch loop of               *)
(* fetch_weather_data, its time-to-live memoization (st.cache_data,        *)
(* ttl = 600), and the script run that renders the table, the refresh      *)
(* button and the map.                                                     *)
(*                                                                         *)
(* Numbers: temperatures are whole degrees Celsius; coordinates are kept   *)
(* in units of 1/10000 degree; time is in seconds.                         *)
(* An absent value (Python None / nothing cached) is the empty sequence    *)
(* <<>>, a present value v is <<v>>.                                       *)
(***************************************************************************)
EXTENDS Integers, Sequences, FiniteSets, TLC

\* ------------------------------------------------------------------ bounds
\* Number of entries of target_cities the model iterates over (a prefix of
\* the nine configured cities, in their configured order).
NumCities == 2

\* Seconds the clock advances in one Tick, and the last clock value modelled.
TickStep == 300

MaxTime == 1200

\* ------------------------------------------------------- program constants
\* @st.cache_data(ttl=600)
TTL == 600

\* The nine entries of target_cities, in dict (insertion) order.
city_table ==
  << [City |-> "Fukuoka",   lat |-> 335904, lon |-> 1304017],
     [City |-> "Saga",      lat |-> 332494, lon |-> 1302974],
     [City |-> "Nagasaki",  lat |-> 327450, lon |-> 1298739],
     [City |-> "Kumamoto",  lat |-> 327900, lon |-> 1307420],
     [City |-> "Oita",      lat |-> 332381, lon |-> 1316119],
     [City |-> "Miyazaki",  lat |-> 319110, lon |-> 1314240],
     [City |-> "Kagoshima", lat |-> 315600, lon |-> 1305580],
     [City |-> "Osaka",     lat |-> 346937, lon |-> 1355023],
     [City |-> "Tokyo",     lat |-> 356895, lon |-> 1396917] >>

target_cities == SubSeq(city_table, 1, NumCities)

CityNames == [k \in 1..Len(target_cities) |-> target_cities[k].City]

\* ------------------------------------------------- what the network returns
\* Temperatures the upstream source may report (both sides of each threshold,
\* and a sub-zero reading).
Temps == {-5, 9, 10, 19, 20}

\* An ISO-8601 timestamp, by its fields; wellformed = FALSE is a string that
\* datetime.fromisoformat rejects.
IsoTime ==
  [wellformed |-> TRUE, year |-> 2024, month |-> 6, day |-> 1,
   hour |-> 15, minute |-> 0, second |-> 30, offset |-> 540]

\* The outcome of one requests.get call:
\*   conn     FALSE: requests.get raised (transport failure)
\*   status   the HTTP status of the response
\*   json     FALSE: the body is not JSON
\*   hasTime  FALSE: data['current']['time'] is missing
\*   time     the value of data['current']['time']
\*   hasTemp  FALSE: data['current']['temperature_2m'] is missing
\*   numeric  FALSE: temperature_2m is null
\*   temp     the value of temperature_2m when numeric
Ok(t) ==
  [conn |-> TRUE, status |-> 200, json |-> TRUE, hasTime |-> TRUE,
   time |-> IsoTime, hasTemp |-> TRUE, numeric |-> TRUE, temp |-> t]

ConnectionFailed == [Ok(20) EXCEPT !.conn = FALSE]

ServerError == [Ok(20) EXCEPT !.status = 500]

NotJson == [Ok(20) EXCEPT !.json = FALSE]

MissingTime == [Ok(20) EXCEPT !.hasTime = FALSE]

BadTime == [Ok(20) EXCEPT !.time = [IsoTime EXCEPT !.wellformed = FALSE]]

MissingTemp == [Ok(20) EXCEPT !.hasTemp = FALSE]

NullTemp == [Ok(20) EXCEPT !.numeric = FALSE]

Responses ==
  {Ok(t) : t \in Temps} \cup
  {ConnectionFailed, ServerError, NotJson, MissingTime, BadTime,
   MissingTemp, NullTemp}

\* ------------------------------------------------------------------- state
VARIABLES
  pc,            \* position of the script run
  i,             \* 1-based index of the loop of line 30 into target_cities
  weather_info,  \* the list built by fetch_weather_data
  errors,        \* the st.error reports shown by this run
  requests,      \* cities for which requests.get was called in this run
  inflight,      \* number of requests.get calls that have not returned
  outcomes,      \* the responses received by this run's fetch loop
  df,            \* the table of line 71
  cache,         \* the st.cache_data entry of fetch_weather_data
  now,           \* the clock
  exc,           \* the exception that ended the script run and where it was
                 \* raised; NoException while there is none
  shown,         \* page elements rendered by this run
  clicked,       \* this run was triggered by a click on the button
  lookup,        \* how line 71 was served in this run: "pending", "hit" (the
                 \* memoized table) or "miss" (the function body ran)
  refreshed,     \* this run was started by st.rerun() of line 85
  withinWindow,  \* this run's lookup came less than ttl after the previous
                 \* run's table was fetched, with no refresh in between
  prevDf,        \* table returned to the previous run, until the next lookup
  prevFailed,    \* cities absent from the table returned to the previous run
  prevFetchedAt, \* clock value when the previous run's table was fetched,
                 \* until the next lookup
  fetchedAt      \* clock value when the current table was fetched

vars ==
  << pc, i, weather_info, errors, requests, inflight, outcomes, df, cache,
     now, exc, shown, clicked, lookup, refreshed, withinWindow, prevDf,
     prevFailed, prevFetchedAt, fetchedAt >>

\* The variables of one script run's namespace and page.
runVars ==
  << i, weather_info, errors, requests, inflight, outcomes, df, exc, shown >>

\* The variables that remember the previous run.
histVars == << withinWindow, prevDf, prevFailed, prevFetchedAt >>

\* ----------------------------------------------------------- pure functions
NoException == [type |-> "none", at |-> "none"]

\* Variant of Color with exclusive thresholds (> in place of >=).
Color_Exclusive(temp) ==
  IF temp > 20 THEN <<255, 100, 0, 200>>
  ELSE IF temp > 10 THEN <<255, 200, 0, 200>>
  ELSE <<0, 150, 255, 200>>

\* Lines 48-53: the RGBA colour of a temperature.
Color(temp) ==
  IF temp >= 20 THEN <<255, 100, 0, 200>>
  ELSE IF temp >= 10 THEN <<255, 200, 0, 200>>
  ELSE <<0, 150, 255, 200>>

\* Variant of Elevation that clamps sub-zero readings to the ground.
Elevation_Clamped(temp) == IF temp < 0 THEN 0 ELSE temp * 5000

\* Line 62.
Elevation(temp) == temp * 5000

\* Line 43: fromisoformat(...).strftime('%Y/%m/%d %H:%M') keeps year, month,
\* day, hour and minute and drops seconds and UTC offset.
FormatTime(t) == <<t.year, t.month, t.day, t.hour, t.minute>>

\* Lines 38-53: the exception the try body raises for response r, in the
\* order the statements run; "none" when it reaches line 55.
Raises(r) ==
  IF ~r.conn THEN "ConnectionError"
  ELSE IF r.status >= 400 THEN "HTTPError"
  ELSE IF ~r.json THEN "JSONDecodeError"
  ELSE IF ~r.hasTime THEN "KeyError"
  ELSE IF ~r.time.wellformed THEN "ValueError"
  ELSE IF ~r.hasTemp THEN "KeyError"
  ELSE IF ~r.numeric THEN "TypeError"
  ELSE "none"

\* Variant of Caught for a clause `except requests.RequestException`.
Caught_RequestErrorsOnly(e) ==
  e \in {"ConnectionError", "HTTPError", "JSONDecodeError"}

\* Line 64: except Exception catches every exception the try body raises
\* (each of them is a subclass of Exception).
Caught(e) == e # "none"

\* Lines 55-63: the row appended for a city and its response.
Row(c, r) ==
  [City |-> c.City, lat |-> c.lat, lon |-> c.lon, Temperature |-> r.temp,
   Time |-> FormatTime(r.time), color |-> Color(r.temp),
   elevation |-> Elevation(r.temp)]

\* Variant of AppendRow that inserts at the front of the list.
AppendRow_Front(info, row) == <<row>> \o info

\* Line 55: weather_info.append(row).
AppendRow(info, row) == Append(info, row)

\* Line 65: st.error(f"Error fetching {city}: {e}").
ReportError(errs, city, e) == Append(errs, [city |-> city, exception |-> e])

\* Variant of ErrorsAfter that reports in a finally clause, raised or not.
ErrorsAfter_Always(errs, city, e) ==
  Append(errs, [city |-> city, exception |-> e])

\* Lines 64-65: the error reports after one loop iteration that raised e
\* ("none": it raised nothing).
ErrorsAfter(errs, city, e) ==
  IF Caught(e) THEN ReportError(errs, city, e) ELSE errs

\* Variant of NextIndex that tries a failed city again.
NextIndex_Retry(k, e) == IF e # "none" THEN k ELSE k + 1

\* Line 30: the loop moves to the next city after every iteration.
NextIndex(k, e) == k + 1

\* Variant of CacheHit with the ttl left out of the comparison.
CacheHit_NoTtl(entry, t) == entry # <<>> /\ t < entry[1].stored

\* st.cache_data(ttl=600): an entry is served while younger than ttl.
CacheHit(entry, t) == entry # <<>> /\ t < entry[1].stored + TTL

\* Variant of CacheStore that memoizes only a table with a row per city.
CacheStore_CompleteOnly(value, errs, t) ==
  IF Len(value) = Len(target_cities)
  THEN << [stored |-> t, value |-> value, errors |-> errs] >>
  ELSE <<>>

\* st.cache_data stores the return value and the elements the call showed.
CacheStore(value, errs, t) ==
  << [stored |-> t, value |-> value, errors |-> errs] >>

\* Variant of CacheClear that leaves the entry in place.
CacheClear_Noop(entry) == entry

\* Line 84: st.cache_data.clear().
CacheClear(entry) == <<>>

\* Cities of a table's rows.
CitiesOf(table) == {table[k].City : k \in 1..Len(table)}

\* Cities of target_cities without a row in table.
FailedIn(table) == {CityNames[k] : k \in 1..Len(CityNames)} \ CitiesOf(table)

\* --------------------------------------------------------------------- Init
Init ==
  /\ pc = "start"
  /\ i = 1
  /\ weather_info = <<>>
  /\ errors = <<>>
  /\ requests = <<>>
  /\ inflight = 0
  /\ outcomes = <<>>
  /\ df = <<>>
  /\ cache = <<>>
  /\ now = 0
  /\ exc = NoException
  /\ shown = {}
  /\ clicked = FALSE
  /\ lookup = "pending"
  /\ refreshed = FALSE
  /\ withinWindow = FALSE
  /\ prevDf = <<>>
  /\ prevFailed = {}
  /\ prevFetchedAt = 0
  /\ fetchedAt = 0

\* A new script run starts from the top with nothing of the old run's
\* namespace; the table of the run that ends is remembered as prevDf.
NewRun ==
  /\ pc' = "start"
  /\ i' = 1
  /\ weather_info' = <<>>
  /\ errors' = <<>>
  /\ requests' = <<>>
  /\ inflight' = 0
  /\ outcomes' = <<>>
  /\ df' = <<>>
  /\ exc' = NoException
  /\ shown' = {}
  /\ lookup' = "pending"
  /\ withinWindow' = FALSE
  /\ prevDf' = <<df>>
  /\ prevFailed' = FailedIn(df)
  /\ prevFetchedAt' = fetchedAt
  /\ UNCHANGED <<now, fetchedAt>>

\* What the lookup of line 71 records about the previous run.
Looked ==
  /\ withinWindow' =
       (prevDf # <<>> /\ ~refreshed /\ now < prevFetchedAt + TTL)
  /\ prevDf' = <<>>
  /\ prevFetchedAt' = 0
  /\ UNCHANGED prevFailed

\* ------------------------------------------------------------------ actions
\* Line 71, memoized: the cached table and its error elements are replayed
\* and the body of fetch_weather_data does not run.
FetchCached ==
  /\ pc = "start"
  /\ CacheHit(cache, now)
  /\ df' = cache[1].value
  /\ errors' = cache[1].errors
  /\ lookup' = "hit"
  /\ pc' = "col1"
  /\ Looked
  /\ UNCHANGED <<i, weather_info, requests, inflight, outcomes, cache, now,
                 exc, shown, clicked, refreshed, fetchedAt>>

\* Line 71, not memoized: an entry older than ttl is dropped by the lookup
\* and fetch_weather_data starts (lines 27-28).
FetchStart ==
  /\ pc = "start"
  /\ ~CacheHit(cache, now)
  /\ cache' = <<>>
  /\ weather_info' = <<>>
  /\ i' = 1
  /\ lookup' = "miss"
  /\ pc' = "loop"
  /\ Looked
  /\ UNCHANGED <<errors, requests, inflight, outcomes, df, now, exc, shown,
                 clicked, refreshed, fetchedAt>>

\* Line 38: requests.get is called for the i-th city and blocks.
Request ==
  /\ pc = "loop"
  /\ i <= Len(target_cities)
  /\ requests' = Append(requests, target_cities[i].City)
  /\ inflight' = inflight + 1
  /\ pc' = "wait"
  /\ UNCHANGED <<i, weather_info, errors, outcomes, df, cache, now, exc,
                 shown, clicked, lookup, refreshed, fetchedAt>>
  /\ UNCHANGED histVars

\* Lines 38-65: the call returns or raises, and the rest of the iteration
\* runs: a row is appended, or the exception is caught and reported. An
\* exception the except clause does not catch leaves fetch_weather_data and
\* ends the script run.
Response ==
  /\ pc = "wait"
  /\ \E r \in Responses :
       LET c == target_cities[i]
           e == Raises(r)
       IN /\ weather_info' =
               IF e = "none" THEN AppendRow(weather_info, Row(c, r))
               ELSE weather_info
          /\ errors' = ErrorsAfter(errors, c.City, e)
          /\ outcomes' = Append(outcomes, r)
          /\ IF e = "none" \/ Caught(e)
             THEN /\ i' = NextIndex(i, e)
                  /\ pc' = "loop"
                  /\ exc' = exc
             ELSE /\ i' = i
                  /\ pc' = "crashed"
                  /\ exc' = [type |-> e, at |-> "fetch_weather_data"]
  /\ inflight' = inflight - 1
  /\ UNCHANGED <<requests, df, cache, now, shown, clicked, lookup, refreshed,
                 fetchedAt>>
  /\ UNCHANGED histVars

\* Line 67 and the assignment of line 71: the table is returned and memoized.
Return ==
  /\ pc = "loop"
  /\ i > Len(target_cities)
  /\ df' = weather_info
  /\ cache' = CacheStore(weather_info, errors, now)
  /\ fetchedAt' = now
  /\ pc' = "col1"
  /\ UNCHANGED <<i, weather_info, errors, requests, inflight, outcomes, now,
                 exc, shown, clicked, lookup, refreshed>>
  /\ UNCHANGED histVars

\* Lines 83-85: the button reports the click; the cache is cleared and the
\* script is rerun from the top.
RefreshHandler ==
  /\ cache' = CacheClear(cache)
  /\ refreshed' = TRUE
  /\ clicked' = FALSE
  /\ NewRun

\* Lines 76-85. pd.DataFrame([]) has no columns, so selecting
\* ['City', 'Temperature', 'Time'] from it at line 79 raises KeyError and the
\* run ends there.
RenderCol1 ==
  /\ pc = "col1"
  /\ IF df = <<>>
     THEN /\ exc' = [type |-> "KeyError", at |-> "col1"]
          /\ pc' = "crashed"
          /\ shown' = shown \cup {"subheader"}
          /\ UNCHANGED <<i, weather_info, errors, requests, inflight, outcomes,
                         df, cache, now, clicked, lookup, refreshed,
                         fetchedAt>>
          /\ UNCHANGED histVars
     ELSE IF clicked
     THEN RefreshHandler
     ELSE /\ shown' = shown \cup {"subheader", "table", "info", "button"}
          /\ pc' = "col2"
          /\ UNCHANGED <<i, weather_info, errors, requests, inflight, outcomes,
                         df, cache, now, exc, clicked, lookup, refreshed,
                         fetchedAt>>
          /\ UNCHANGED histVars

\* Lines 87-120.
RenderCol2 ==
  /\ pc = "col2"
  /\ shown' = shown \cup {"map"}
  /\ pc' = "idle"
  /\ UNCHANGED <<i, weather_info, errors, requests, inflight, outcomes, df,
                 cache, now, exc, clicked, lookup, refreshed, fetchedAt>>
  /\ UNCHANGED histVars

\* The user clicks the button of line 83: Streamlit reruns the script with
\* the button reporting True.
Click ==
  /\ pc = "idle"
  /\ "button" \in shown
  /\ clicked' = TRUE
  /\ refreshed' = FALSE
  /\ NewRun
  /\ UNCHANGED cache

\* The page is loaded again (the script runs from the top, button not
\* clicked), after a completed run or after one that ended in an exception.
Reload ==
  /\ pc \in {"idle", "crashed"}
  /\ clicked' = FALSE
  /\ refreshed' = FALSE
  /\ NewRun
  /\ UNCHANGED cache

\* Time passes while the page is displayed or a request blocks.
Tick ==
  /\ pc \in {"idle", "crashed", "wait"}
  /\ now + TickStep <= MaxTime
  /\ now' = now + TickStep
  /\ UNCHANGED <<pc, cache, clicked, lookup, refreshed, fetchedAt>>
  /\ UNCHANGED runVars
  /\ UNCHANGED histVars

Next ==
  \/ FetchCached
  \/ FetchStart
  \/ Request
  \/ Response
  \/ Return
  \/ RenderCol1
  \/ RenderCol2
  \/ Click
  \/ Reload
  \/ Tick

Spec == Init /\ [][Next]_vars

\* ---------------------------------------------------------------- properties
\* The run has passed line 71.
AfterFetch == pc \in {"col1", "col2", "idle", "crashed"}

\* The request or the parse of response r fails: no response, a non-2xx
\* status, a body that is not JSON or lacks a field, a timestamp that is not
\* ISO-8601, a temperature that is not a number.
RequestOrParseFails(r) ==
  \/ ~r.conn
  \/ r.status \notin 200..299
  \/ ~r.json
  \/ ~r.hasTime
  \/ ~r.hasTemp
  \/ ~r.time.wellformed
  \/ ~r.numeric

\* Positions of target_cities whose response in this run failed.
FailedPositions ==
  {k \in 1..Len(outcomes) : RequestOrParseFails(outcomes[k])}

\* Number of error reports that carry the name of city.
ReportsFor(city) ==
  Cardinality({k \in 1..Len(errors) : errors[k].city = city})

\* Position of a city name in target_cities.
PositionOf(city) == CHOOSE k \in 1..Len(CityNames) : CityNames[k] = city

\* The rows of table follow the order of target_cities, one row per city at
\* most.
InLocationOrder(table) ==
  \A a, b \in 1..Len(table) :
    a < b => PositionOf(table[a].City) < PositionOf(table[b].City)

\* Every table the program holds.
Tables ==
  {weather_info, df} \cup (IF cache = <<>> THEN {} ELSE {cache[1].value})

AllRows == UNION {{t[k] : k \in 1..Len(t)} : t \in Tables}

\* C1: in a run of fetch_weather_data, whichever locations fail, the table
\* returned has exactly the non-failing locations (rows = locations minus
\* failures) and no exception leaves the batch.
C1_FailureIsolation ==
  /\ exc.at # "fetch_weather_data"
  /\ (lookup = "miss" /\ AfterFetch) =>
       /\ Len(outcomes) = Len(target_cities)
       /\ Len(df) = Len(target_cities) - Cardinality(FailedPositions)
       /\ CitiesOf(df) =
            {CityNames[k] : k \in (1..Len(target_cities)) \ FailedPositions}

\* A batch with one failed and at least one successful location has returned.
C1_Witness ==
  /\ lookup = "miss"
  /\ pc = "col1"
  /\ Cardinality(FailedPositions) = 1
  /\ Len(df) = Len(target_cities) - 1

\* C2: once the refresh handler has run, the cache is empty, the next fetch
\* is not served from it, and by the time the run renders, a request has been
\* issued for every configured location. The run that the click itself
\* triggers never gets past the button with memoized data.
C2_RefreshForcesFetch ==
  /\ refreshed =>
       /\ pc = "start" => cache = <<>>
       /\ lookup # "hit"
       /\ AfterFetch => requests = CityNames
  /\ (clicked /\ pc \in {"col2", "idle", "crashed"}) =>
       (lookup = "miss" /\ requests = CityNames)

\* A refresh invoked while the memoized table was fresh (no time has passed
\* since it was fetched) has led to a rendered page.
C2_Witness ==
  /\ refreshed
  /\ pc = "idle"
  /\ now = 0
  /\ requests = CityNames

\* C3: when line 71 runs less than 600 seconds after the previous run's table
\* was fetched and no refresh came in between, it returns the same table and
\* issues no request.
C3_MemoizedWithinWindow ==
  [][ ( /\ pc = "start"
        /\ pc' # "start"
        /\ prevDf # <<>>
        /\ ~refreshed
        /\ now < prevFetchedAt + TTL )
      => ( /\ lookup' = "hit"
           /\ pc' = "col1"
           /\ df' = prevDf[1]
           /\ requests' = <<>> ) ]_vars

\* A second run has been served the full table from the cache, after time
\* has passed.
C3_Witness ==
  /\ withinWindow
  /\ lookup = "hit"
  /\ pc = "col1"
  /\ now > fetchedAt
  /\ Len(df) = Len(target_cities)

\* C4 (as claimed): a cycle in which every location failed still ends in a
\* complete render: no exception, and table, button and map on the page.
C4_EmptyRenderCompletes ==
  ( /\ AfterFetch
    /\ lookup = "miss"
    /\ Len(outcomes) = Len(target_cities)
    /\ FailedPositions = 1..Len(target_cities) )
  => /\ exc = NoException
     /\ pc # "crashed"
     /\ pc = "idle" => {"table", "button", "map"} \subseteq shown

C6_ElevationScale ==
  \A row \in AllRows :
    /\ row.elevation = row.Temperature * 5000
    /\ row.Temperature < 0 => row.elevation < 0

\* The table holds a row for -5 degrees with elevation -25000.
C6_Witness ==
  /\ AfterFetch
  /\ \E k \in 1..Len(df) :
       df[k].Temperature = -5 /\ df[k].elevation = -25000

\* C7: the rows of every table are in the order of target_cities, at most one
\* row per location.
C7_RowsInLocationOrder ==
  \A t \in Tables :
    /\ InLocationOrder(t)
    /\ \A a, b \in 1..Len(t) : t[a].City = t[b].City => a = b

\* A table with a row for each of at least two locations has been returned.
C7_Witness ==
  /\ pc = "col1"
  /\ lookup = "miss"
  /\ Len(df) = Len(target_cities)
  /\ Len(df) >= 2

\* C8: in a fetch cycle every location that failed has exactly one error
\* report with its name, and a location that succeeded has none.
C8_OneErrorPerFailure ==
  lookup = "miss" =>
    /\ \A k \in 1..Len(outcomes) :
         ReportsFor(CityNames[k]) = IF k \in FailedPositions THEN 1 ELSE 0
    /\ Len(errors) = Cardinality(FailedPositions)

\* A cycle with a failed and a successful location has ended.
C8_Witness ==
  /\ lookup = "miss"
  /\ AfterFetch
  /\ FailedPositions # {}
  /\ FailedPositions # 1..Len(target_cities)
  /\ Len(errors) = Cardinality(FailedPositions)

\* C9: in a non-memoized cycle the requests issued so far are the first
\* cities of target_cities in order, one each; at most one request is
\* outstanding and a new one is issued only after the previous one returned;
\* the loop ends after the last city, with one request per city.
C9_SequentialSingleRequests ==
  /\ inflight \in {0, 1}
  /\ inflight = 1 <=> pc = "wait"
  /\ lookup = "miss" =>
       /\ Len(requests) <= Len(CityNames)
       /\ requests = SubSeq(CityNames, 1, Len(requests))
       /\ Len(outcomes) = Len(requests) - inflight
       /\ AfterFetch => requests = CityNames

\* A cycle in which a location failed has ended.
C9_Witness ==
  /\ lookup = "miss"
  /\ pc = "col1"
  /\ FailedPositions # {}
  /\ requests = CityNames

\* C10: a table with failed locations is memoized like any other: a run less
\* than 600 seconds after it was fetched, with no refresh in between, is
\* served from the cache, issues no request, and has the same locations
\* missing, so a failed location reappears only after a refresh or expiry.
C10_PartialResultMemoized ==
  withinWindow =>
    /\ lookup = "hit"
    /\ requests = <<>>
    /\ FailedIn(df) = prevFailed

\* A run has been served a memoized table with some, not all, locations
\* missing.
C10_Witness ==
  /\ withinWindow
  /\ pc = "idle"
  /\ prevFailed # {}
  /\ Len(df) > 0
  /\ FailedIn(df) = prevFailed

====
